---- MODULE Spec2Model ----
(***************************************************************************)
(* State-machine model of the WebKit FrameManager (src/unnamed/part_000):  *)
(* the frame registry, the execution-context registry, the session binding *)
(* and the document-id counter, driven by the protocol events the session  *)
(* delivers.  Every handler is a function from a manager state record to   *)
(* the manager state after the handler returned or threw; the actions      *)
(* apply one handler to the current state.                                 *)
(* A last section models the task pipeline of the test runner              *)
(* (src/packages/playwright-test/src/runner/tasks.ts).                     *)
(***************************************************************************)
EXTENDS Integers, Sequences, FiniteSets, TLC

\* ------------------------------------------------------------------ bounds

\* Frame objects ever constructed (new frames.Frame).
MaxFrames == 3
\* Cap on the process-wide document counter.
MaxDocs == 2
\* Protocol execution-context ids the remote side uses.
MaxContextId == 2
\* Cap on how often one context object is disposed.
MaxDisposals == 2
\* Frame objects constructed in the runs that follow execution contexts or
\* document ids.
MaxContextFrames == 2

\* Navigation calls (navigateFrame, waitForFrameNavigation, ...) ever started.
MaxCalls == 1
\* The last tick of the clock.
MaxTime == 2

Handles == 1..MaxFrames
CallIds == 1..MaxCalls
\* Protocol frame ids the remote side uses.
FrameIds == {1, 2, 3}
ContextIds == 1..MaxContextId
\* Sessions handed to setSession.
Sessions == {1, 2}

\* undefined / null: no Frame, no frame id, no session.
Null == 0
\* An absent entry of _contextIdToContext.
NoContext == [frame |-> 0, disposals |-> 0]

\* A Frame without current contexts.
NoWorlds == [main |-> 0, utility |-> 0]
\* What a context payload says of its world: isPageContext, the utility world's
\* name, or neither.
Worlds == {"main", "utility", "other"}

\* frames.LifecycleEvent
Lifecycle == {"domcontentloaded", "load"}

\* A call slot not yet used.  Of a call: the LifecycleWatcher it created
\* ("pending" until disposed), its command (or evaluation) in flight, whether
\* the watcher existed when the command was sent, whether the call awaits the
\* watcher's race, the watcher's deadline (0: no timer), required events,
\* expected document id and promises, the race's outcome and the call's.
NoCall == [kind |-> "none", frame |-> 0, watcher |-> "none", send |-> "none",
           armed |-> FALSE, racing |-> FALSE, deadline |-> 0, waitUntil |-> {},
           expected |-> <<>>, tor |-> "none", newDoc |-> "none", sameDoc |-> "none",
           life |-> "none", waitResult |-> "none", result |-> "none"]

\* loaderId values of the payloads, as character sequences: "L" and "L::1".
LoaderIds == {<<"L">>, <<"L", ":", ":", "1">>}

VARIABLES
  frames,           \* _frames: frame id -> Frame (Null when absent)
  mainFrame,        \* _mainFrame
  nObjs,            \* number of Frame objects constructed so far
  frameData,        \* Frame[frameDataSymbol].id
  parentFrame,      \* Frame._parentFrame
  childFrames,      \* Frame._childFrames, in insertion order
  detached,         \* Frame._detached
  contexts,         \* _contextIdToContext
  worldContext,     \* Frame._contextData: the current main and utility context
  fired,            \* Frame._firedLifecycleEvents
  calls,            \* the navigation calls started so far and their watchers
  now,              \* the clock the watchers' timers read
  consoleWaiting,   \* console messages awaiting the main frame's context
  lastDocumentId,   \* the module-level counter
  committed,        \* the document ids committed so far, in order
  session,          \* _session
  sessionListeners, \* sessions on which _sessionListeners are installed
  isolatedWorlds,   \* _isolatedWorlds
  enabling,         \* per session, the Runtime.enable commands of _initializeSession
                    \* whose reply is outstanding
  enabled,          \* the sessions a Runtime.enable reply of which was handled
  worldsSent,       \* per session, the Page.createIsolatedWorld commands sent on it
  sentSinceSet,     \* the Page.createIsolatedWorld commands sent since setSession
  emitted,          \* events emitted by the last handler call, in order
  notified,         \* calls into Frame objects of the last handler call:
                    \* _contextDestroyed(ctx), _onDetached (ctx = 0) and
                    \* _onExpectedNewDocumentNavigation (ctx = -1)
  threw,            \* whether the last handler call threw
  last,             \* the last handler call and its arguments
  runner            \* the test runner's task pipeline (runner/tasks.ts)

managerVars == <<frames, mainFrame, nObjs, frameData, parentFrame, childFrames, detached,
          contexts, worldContext, fired, calls, now, consoleWaiting,
          lastDocumentId, committed, session, sessionListeners,
          isolatedWorlds, enabling, enabled, worldsSent, sentSinceSet,
          emitted, notified, threw, last>>

vars == <<managerVars, runner>>

\* The manager state the handlers transform.
Cur == [frames |-> frames, mainFrame |-> mainFrame, nObjs |-> nObjs,
        frameData |-> frameData, parentFrame |-> parentFrame,
        childFrames |-> childFrames, detached |-> detached,
        contexts |-> contexts, worldContext |-> worldContext,
        fired |-> fired, calls |-> calls, now |-> now,
        consoleWaiting |-> consoleWaiting,
        lastDocumentId |-> lastDocumentId,
        committed |-> committed, session |-> session,
        sessionListeners |-> sessionListeners,
        isolatedWorlds |-> isolatedWorlds, enabling |-> enabling,
        enabled |-> enabled, worldsSent |-> worldsSent,
        sentSinceSet |-> sentSinceSet,
        emitted |-> <<>>, notified |-> {}, threw |-> FALSE]

\* ------------------------------------------------- frames.LifecycleWatcher

\* A watcher that was constructed and not disposed still listens.
Listening(w) == w.watcher = "pending"

\* The watched frame was detached: Terminated.
WatcherOnFrameDetached(w, h) ==
  IF Listening(w) /\ w.frame = h /\ w.tor = "none"
  THEN [w EXCEPT !.tor = "terminated"] ELSE w

\* A new-document navigation is expected on the watched frame.
WatcherOnExpected(w, h, documentId) ==
  IF Listening(w) /\ w.frame = h /\ w.expected = <<>>
  THEN [w EXCEPT !.expected = documentId] ELSE w

\* A document was committed in the watched frame: NewDocumentSettled when it is
\* the expected one; another one aborts the expectation and the watcher waits on.
WatcherOnCommitted(w, h, documentId) ==
  IF ~(Listening(w) /\ w.frame = h) THEN w
  ELSE IF w.expected = documentId
       THEN IF w.newDoc = "none" THEN [w EXCEPT !.newDoc = "ok"] ELSE w
       ELSE [w EXCEPT !.expected = <<>>]

\* The expected navigation was aborted: the new-document promise yields an error.
WatcherOnAborted(w, h, documentId) ==
  IF Listening(w) /\ w.frame = h /\ w.expected = documentId /\ w.newDoc = "none"
  THEN [w EXCEPT !.newDoc = "error"] ELSE w

\* A same-document navigation: SameDocumentSettled unless a new document is
\* expected.
WatcherOnSameDocument(w, h) ==
  IF Listening(w) /\ w.frame = h /\ w.expected = <<>> /\ w.sameDoc = "none"
  THEN [w EXCEPT !.sameDoc = "ok"] ELSE w

\* LifecycleSettled: every required event has fired for the current document.
WatcherCheckLifecycle(w, firedNow) ==
  IF Listening(w) /\ w.life = "none" /\ w.waitUntil \subseteq firedNow[w.frame]
  THEN [w EXCEPT !.life = "ok"] ELSE w

\* The timer started at construction: TimedOut.
WatcherOnTimer(w) ==
  IF Listening(w) /\ w.tor = "none" THEN [w EXCEPT !.tor = "timeout"] ELSE w

\* What Promise.race yields for the promises a call races, in array order; the
\* content-injecting call races the lifecycle promise instead of the navigation
\* promises.
RaceOutcome(w) ==
  IF w.tor # "none" THEN w.tor
  ELSE IF w.kind = "setFrameContent"
       THEN (IF w.life = "ok" THEN "ok" ELSE "none")
  ELSE IF w.newDoc = "ok" THEN "ok"
  ELSE IF w.newDoc = "error" THEN "aborted"
  ELSE IF w.sameDoc = "ok" THEN "ok"
  ELSE "none"

\* The calls that wait for the navigation concurrently with their command.
Concurrent == {"reload", "goBack", "goForward"}

\* The continuation after `await Promise.race([...])`: watchDog.dispose(), then
\* the error is thrown or the response returned.  A concurrent call returns
\* once its command was acknowledged too, and throws the first rejection.
ResumeCall(w) ==
  IF ~(w.racing /\ RaceOutcome(w) # "none") THEN w
  ELSE
    LET out == RaceOutcome(w)
        w1 == [w EXCEPT !.racing = FALSE, !.waitResult = out, !.watcher = "disposed"]
    IN  IF w.result # "none" THEN w1
        ELSE IF w.kind \in Concurrent /\ out = "ok" /\ w.send # "ok" THEN w1
        ELSE [w1 EXCEPT !.result = out]

\* The awaiting calls whose race has an outcome go on.
ResumeCalls(st) ==
  IF \A c \in CallIds : ~st.calls[c].racing THEN st
  ELSE [st EXCEPT !.calls = [c \in CallIds |-> ResumeCall(@[c])]]

\* _onConsoleMessage after `await this.mainFrame().executionContext()`: a
\* parameter with an object id is wrapped by the context of that id, a plain
\* one by the main frame's; an unknown context makes _createHandle throw.
\* Then this._page._addConsoleMessage(...).
ResumeConsoleMessage(st, m) ==
  IF m.objectContext # 0 /\ st.contexts[m.objectContext] = NoContext
  THEN [st EXCEPT !.threw = TRUE]
  ELSE [st EXCEPT !.emitted = Append(@, [src |-> "page", type |-> "Console", frame |-> m.frame])]

RECURSIVE ResumeConsole(_, _)
\* The console messages of ms whose frame has its main context go on.
ResumeConsole(st, ms) ==
  IF ms = <<>> THEN st
  ELSE LET m == Head(ms) IN
       IF st.worldContext[m.frame].main = 0
       THEN LET st1 == ResumeConsole(st, Tail(ms))
            IN  [st1 EXCEPT !.consoleWaiting = <<m>> \o @]
       ELSE ResumeConsole(ResumeConsoleMessage(st, m), Tail(ms))

\* The console handlers whose awaited context is there go on.
ResumeWaiting(st) ==
  IF st.consoleWaiting = <<>> THEN st
  ELSE ResumeConsole([st EXCEPT !.consoleWaiting = <<>>], st.consoleWaiting)

\* The promise reactions that run before the next event is handled.
RunMicrotasks(st) == ResumeWaiting(ResumeCalls(st))

\* What a frame tells its watchers.
Notice(type, h, documentId) == [type |-> type, frame |-> h, documentId |-> documentId]

WatcherOn(w, notice, firedNow) ==
  CASE notice.type = "detached" -> WatcherOnFrameDetached(w, notice.frame)
    [] notice.type = "expected" -> WatcherOnExpected(w, notice.frame, notice.documentId)
    [] notice.type = "committed" -> WatcherOnCommitted(w, notice.frame, notice.documentId)
    [] notice.type = "aborted" -> WatcherOnAborted(w, notice.frame, notice.documentId)
    [] notice.type = "sameDocument" -> WatcherOnSameDocument(w, notice.frame)
    [] OTHER -> WatcherCheckLifecycle(w, firedNow)

\* The watchers that listen hear of what happened to a frame.
NotifyWatchers(st, notice) ==
  IF \A c \in CallIds : ~Listening(st.calls[c]) THEN st
  ELSE [st EXCEPT !.calls = [c \in CallIds |-> WatcherOn(@[c], notice, st.fired)]]

\* The next state is st.
Settle(st) ==
  /\ frames' = st.frames
  /\ mainFrame' = st.mainFrame
  /\ nObjs' = st.nObjs
  /\ frameData' = st.frameData
  /\ parentFrame' = st.parentFrame
  /\ childFrames' = st.childFrames
  /\ detached' = st.detached
  /\ contexts' = st.contexts
  /\ worldContext' = st.worldContext
  /\ fired' = st.fired
  /\ calls' = st.calls
  /\ now' = st.now
  /\ consoleWaiting' = st.consoleWaiting
  /\ lastDocumentId' = st.lastDocumentId
  /\ committed' = st.committed
  /\ session' = st.session
  /\ sessionListeners' = st.sessionListeners
  /\ isolatedWorlds' = st.isolatedWorlds
  /\ enabling' = st.enabling
  /\ enabled' = st.enabled
  /\ worldsSent' = st.worldsSent
  /\ sentSinceSet' = st.sentSinceSet
  /\ emitted' = st.emitted
  /\ notified' = st.notified
  /\ threw' = st.threw
  /\ runner' = runner

\* The state after a handler ran and the promise reactions it caused.
Commit(st) == Settle(RunMicrotasks(st))

Call(op, id, parentId) == [op |-> op, id |-> id, parentId |-> parentId]

\* An emitted event: by the manager itself (FrameManagerEvents) or by the page.
Ev(src, type, h) == [src |-> src, type |-> type, frame |-> h]

\* this.emit(FrameManagerEvents.X, frame); this._page.emit(Events.Page.X, frame)
EmitBoth(st, type, h) ==
  [st EXCEPT !.emitted = @ \o <<Ev("manager", type, h), Ev("page", type, h)>>]

Throw(st) == [st EXCEPT !.threw = TRUE]

\* ------------------------------------------------------------ frames.Frame

\* new frames.Frame(page, parentFrame): the child registers with its parent.
NewFrame(st, h, parent) ==
  [st EXCEPT !.nObjs = h,
             !.parentFrame[h] = parent,
             !.childFrames = IF parent = Null THEN @
                             ELSE [@ EXCEPT ![parent] = Append(@, h)]]

\* Without s's element x.
Without(s, x) == SelectSeq(s, LAMBDA y : y # x)

\* Frame._onDetached(): sets the detached flag and unlinks from the parent.
\* Whether the manager still had the frame registered when it called is noted.
FrameOnDetached(st, h) ==
  LET p == st.parentFrame[h]
      st1 == [st EXCEPT !.detached[h] = TRUE,
                        !.notified = @ \cup {[ctx |-> 0, frame |-> h,
                                              registered |-> st.frames[st.frameData[h]] = h]},
                        !.childFrames = IF p = Null THEN @
                                        ELSE [@ EXCEPT ![p] = Without(@, h)],
                        !.parentFrame[h] = Null]
  IN  NotifyWatchers(st1, Notice("detached", h, <<>>))

\* Frame._contextCreated(world, context): the context becomes the current one.
FrameContextCreated(st, h, world, c) ==
  LET st1 == [st EXCEPT !.emitted = Append(@, Ev("frame", "ContextCreated", h))] IN
  IF world = "main" THEN [st1 EXCEPT !.worldContext[h].main = c]
  ELSE [st1 EXCEPT !.worldContext[h].utility = c]

\* Frame._contextDestroyed(context): the context is current no longer.
FrameContextDestroyed(st, h, c) ==
  [st EXCEPT !.worldContext[h] =
     [main |-> IF @.main = c THEN 0 ELSE @.main,
      utility |-> IF @.utility = c THEN 0 ELSE @.utility]]

RECURSIVE FrameContextsDestroyed(_, _)
\* Frame._contextDestroyed for every context of cs, each on its own frame.
FrameContextsDestroyed(st, cs) ==
  IF cs = {} THEN st
  ELSE LET c == CHOOSE x \in cs : \A y \in cs : x <= y IN
       FrameContextsDestroyed(
         FrameContextDestroyed(st, st.contexts[c].frame, c), cs \ {c})

\* frame.childFrames(): a copy of the child list.
ChildFramesOf(st, h) == st.childFrames[h]

\* ------------------------------------------------------------ FrameManager

\* Mutation: the frame stays in the registry.
RegistryDeleteNothing(st, h) == st

\* this._frames.delete(this._frameData(frame).id)
RegistryDelete(st, h) == [st EXCEPT !.frames[st.frameData[h]] = Null]

RECURSIVE RemoveFramesRecursively(_, _)
RECURSIVE RemoveAll(_, _)

\* for (const child of children) this._removeFramesRecursively(child)
RemoveAll(st, children) ==
  IF children = <<>> THEN st
  ELSE RemoveAll(RemoveFramesRecursively(st, Head(children)), Tail(children))

RemoveFramesRecursively(st, h) ==
  LET st1 == RemoveAll(st, ChildFramesOf(st, h))
      st2 == FrameOnDetached(st1, h)
      st3 == RegistryDelete(st2, h)
  IN  EmitBoth(st3, "FrameDetached", h)

\* Mutation: the assertion is missing.
AttachAssertNever(st, frameId) == TRUE

\* assert(!this._frames.has(frameId))
AttachAssert(st, frameId) == st.frames[frameId] = Null

OnFrameAttached(st, frameId, parentFrameId) ==
  IF st.threw THEN st
  ELSE IF ~AttachAssert(st, frameId) THEN Throw(st)
  ELSE
    LET parent == IF parentFrameId # Null THEN st.frames[parentFrameId] ELSE Null
        h == st.nObjs + 1
        st1 == NewFrame(st, h, parent)
        st2 == [st1 EXCEPT !.frameData[h] = frameId,
                           !.frames[frameId] = h,
                           !.mainFrame = IF parent = Null THEN h ELSE @]
    IN  EmitBoth(st2, "FrameAttached", h)

\* The decimal digits of n, as characters.
Digit(n) == CASE n = 0 -> "0" [] n = 1 -> "1" [] n = 2 -> "2" [] n = 3 -> "3"
              [] n = 4 -> "4" [] n = 5 -> "5" [] n = 6 -> "6" [] n = 7 -> "7"
              [] n = 8 -> "8" [] n = 9 -> "9"

RECURSIVE NumberToString(_)
NumberToString(n) == IF n < 10 THEN <<Digit(n)>>
               ELSE NumberToString(n \div 10) \o <<Digit(n % 10)>>

\* Mutation: the counter is read without being incremented.
NoIncrement(n) == n

\* ++lastDocumentId
PreIncrement(n) == n + 1

\* framePayload.loaderId + '::' + (++lastDocumentId), given the incremented counter
DocumentId(loaderId, n) == loaderId \o <<":", ":">> \o NumberToString(n)

\* Mutation: no child is detached on navigation.
NoChildren(st, h) == <<>>

\* The children _onFrameNavigated detaches first.
NavigatedChildren(st, h) == ChildFramesOf(st, h)

\* The main frame is re-keyed under the payload's id.
UpdateFrameId(st, h, id) ==
  [st EXCEPT !.frames = [[@ EXCEPT ![st.frameData[h]] = Null] EXCEPT ![id] = h],
             !.frameData[h] = id]

\* Mutation: the contexts of the navigated frame are kept.
OwnedContextsNone(st, h) == {}

\* Dispose and unregister every context owned by the frame.
OwnedContexts(st, h) ==
  {c \in ContextIds : st.contexts[c] # NoContext /\ st.contexts[c].frame = h}

DisposeOwnedContexts(st, h) ==
  LET owned == OwnedContexts(st, h)
      st0 == FrameContextsDestroyed(st, owned)
  IN
  [st0 EXCEPT !.contexts = [c \in ContextIds |-> IF c \in owned THEN NoContext ELSE @[c]],
             !.notified = @ \cup {[ctx |-> c, frame |-> h, registered |-> FALSE] : c \in owned}]

\* Frame._onExpectedNewDocumentNavigation(documentId)
FrameOnExpected(st, h, documentId) ==
  LET st1 == [st EXCEPT !.notified = @ \cup {[ctx |-> -1, frame |-> h,
                                              registered |-> FALSE]}]
  IN  NotifyWatchers(st1, Notice("expected", h, documentId))

\* Frame._onCommittedNewDocumentNavigation(url, name, documentId): the lifecycle
\* events fired so far belonged to the previous document.
FrameOnCommitted(st, h, documentId) ==
  LET st1 == [st EXCEPT !.committed = Append(@, documentId), !.fired[h] = {}]
  IN  NotifyWatchers(st1, Notice("committed", h, documentId))

\* Frame._onAbortedNewDocumentNavigation(documentId, errorText)
FrameOnAborted(st, h, documentId) ==
  NotifyWatchers(st, Notice("aborted", h, documentId))

\* Frame._onCommittedSameDocumentNavigation(url)
FrameOnSameDocument(st, h) ==
  NotifyWatchers(st, Notice("sameDocument", h, <<>>))

\* Frame._lifecycleEvent(event)
FrameLifecycleEvent(st, h, event) ==
  LET st1 == [st EXCEPT !.fired[h] = @ \cup {event}]
  IN  NotifyWatchers(st1, Notice("lifecycle", h, <<>>))

OnFrameNavigated(st, payload, initial) ==
  IF st.threw THEN st
  ELSE
    LET isMainFrame == payload.parentId = Null
        frame == IF isMainFrame THEN st.mainFrame ELSE st.frames[payload.id]
    IN
    IF frame = Null THEN Throw(st)
    ELSE
      LET st1 == RemoveAll(st, NavigatedChildren(st, frame))
          st2 == IF isMainFrame THEN UpdateFrameId(st1, frame, payload.id) ELSE st1
          st3 == DisposeOwnedContexts(st2, frame)
          n == PreIncrement(st3.lastDocumentId)
          documentId == DocumentId(payload.loaderId, n)
          st4 == [st3 EXCEPT !.lastDocumentId = n]
          st5 == IF ~initial THEN FrameOnExpected(st4, frame, documentId) ELSE st4
          st6 == FrameOnCommitted(st5, frame, documentId)
      IN  EmitBoth(st6, "FrameNavigated", frame)

OnFrameDetached(st, frameId) ==
  IF st.frames[frameId] # Null THEN RemoveFramesRecursively(st, st.frames[frameId])
  ELSE st

\* Mutation: the duplicate check is missing.
ContextKnownNever(st, contextId) == FALSE

\* this._contextIdToContext.has(contextPayload.id)
ContextKnown(st, contextId) == st.contexts[contextId] # NoContext

\* _onExecutionContextCreated(contextPayload)
OnExecutionContextCreated(st, contextId, frameId, world) ==
  IF ContextKnown(st, contextId) THEN st
  ELSE IF st.frames[frameId] = Null THEN st
  ELSE
    LET frame == st.frames[frameId]
        st1 == IF world \in {"main", "utility"}
               THEN FrameContextCreated(st, frame, world, contextId)
               ELSE st
    IN  [st1 EXCEPT !.contexts[contextId] = [frame |-> frame, disposals |-> 0]]

\* The registry disconnectFromTarget leaves behind: the loop deletes nothing.
DisconnectedRegistry(cs) ==
  [c \in ContextIds |->
     IF cs[c] = NoContext THEN NoContext ELSE [cs[c] EXCEPT !.disposals = @ + 1]]

\* disconnectFromTarget(): dispose every context and notify its frame.
DisconnectFromTarget(st) ==
  LET live == {c \in ContextIds : st.contexts[c] # NoContext}
      st0 == FrameContextsDestroyed(st, live)
  IN
  [st0 EXCEPT !.notified = @ \cup {[ctx |-> c, frame |-> st.contexts[c].frame,
                                   registered |-> TRUE] : c \in live},
             !.contexts = DisconnectedRegistry(@)]

\* Mutation: the listeners stay on their session.
RemoveNoEventListeners(st) == st

\* helper.removeEventListeners(this._sessionListeners)
RemoveEventListeners(st) == [st EXCEPT !.sessionListeners = {}]

\* _addSessionListeners(): one listener per routed event on this._session
AddSessionListeners(st) == [st EXCEPT !.sessionListeners = @ \cup {st.session}]

\* setSession(session)
DoSetSession(st, s) ==
  LET st1 == AddSessionListeners([DisconnectFromTarget(RemoveEventListeners(st))
                                    EXCEPT !.session = s])
  IN  [st1 EXCEPT !.isolatedWorlds = {}, !.sentSinceSet = 0]

\* didClose()
DoDidClose(st) == DisconnectFromTarget(RemoveEventListeners(st))

\* Frame-tree snapshots of Page.getResourceTree: a root without parent id and
\* up to two further frames, every child naming its parent.
Node(id, parentId, loaderId, children) ==
  [id |-> id, parentId |-> parentId, loaderId |-> loaderId, childFrames |-> children]

FrameTrees ==
  LET L == <<"L">>
      Pairs == {p \in FrameIds \X FrameIds : p[1] # p[2]}
      Triples == {p \in FrameIds \X FrameIds \X FrameIds :
                    p[1] # p[2] /\ p[1] # p[3] /\ p[2] # p[3]}
  IN
     {Node(r, Null, L, <<>>) : r \in FrameIds}
  \cup {Node(p[1], Null, L, <<Node(p[2], p[1], L, <<>>)>>) : p \in Pairs}
  \cup {Node(p[1], Null, L, <<Node(p[2], p[1], L, <<Node(p[3], p[2], L, <<>>)>>)>>) :
          p \in Triples}
  \cup {Node(p[1], Null, L, <<Node(p[2], p[1], L, <<>>), Node(p[3], p[1], L, <<>>)>>) :
          p \in Triples}

RECURSIVE TreeSize(_)
RECURSIVE ForestSize(_)
ForestSize(ts) == IF ts = <<>> THEN 0 ELSE TreeSize(Head(ts)) + ForestSize(Tail(ts))
TreeSize(t) == 1 + ForestSize(t.childFrames)

RECURSIVE HandleFrameTree(_, _)
RECURSIVE HandleFrameTrees(_, _)

\* Mutation: the children of a node are not replayed.
HandleNoFrameTrees(st, ts) == st

\* for (const child of frameTree.childFrames) this._handleFrameTree(child)
HandleFrameTrees(st, ts) ==
  IF ts = <<>> THEN st
  ELSE HandleFrameTrees(HandleFrameTree(st, Head(ts)), Tail(ts))

\* The nodes of a snapshot in pre-order.
RECURSIVE PreOrder(_)
RECURSIVE PreOrders(_)
PreOrders(ts) == IF ts = <<>> THEN <<>> ELSE PreOrder(Head(ts)) \o PreOrders(Tail(ts))
PreOrder(t) == <<t>> \o PreOrders(t.childFrames)

\* An exception of an earlier step ends the replay (the handlers pass a thrown
\* state through unchanged).
HandleFrameTree(st, t) ==
  LET st1 == OnFrameAttached(st, t.id, t.parentId)
      st2 == OnFrameNavigated(st1, t, TRUE)
  IN  HandleFrameTrees(st2, t.childFrames)

\* _onFrameStoppedLoading(frameId): both lifecycle events are fired; the page
\* hears of those the frame had not seen.
OnFrameStoppedLoading(st, frameId) ==
  IF st.frames[frameId] = Null THEN st
  ELSE
    LET frame == st.frames[frameId]
        hasDOMContentLoaded == "domcontentloaded" \in st.fired[frame]
        hasLoad == "load" \in st.fired[frame]
        st1 == FrameLifecycleEvent(st, frame, "domcontentloaded")
        st2 == FrameLifecycleEvent(st1, frame, "load")
        e0 == <<Ev("manager", "LifecycleEvent", frame)>>
        e1 == IF frame = st.mainFrame /\ ~hasDOMContentLoaded
              THEN <<Ev("page", "domcontentloaded", frame)>> ELSE <<>>
        e2 == IF frame = st.mainFrame /\ ~hasLoad
              THEN <<Ev("page", "load", frame)>> ELSE <<>>
    IN  [st2 EXCEPT !.emitted = @ \o e0 \o e1 \o e2]

\* _onLifecycleEvent(frameId, event)
OnLifecycleEvent(st, frameId, event) ==
  IF st.frames[frameId] = Null THEN st
  ELSE
    LET frame == st.frames[frameId]
        st1 == FrameLifecycleEvent(st, frame, event)
        e0 == <<Ev("manager", "LifecycleEvent", frame)>>
        e1 == IF frame = st.mainFrame THEN <<Ev("page", event, frame)>> ELSE <<>>
    IN  [st1 EXCEPT !.emitted = @ \o e0 \o e1]

\* _onFrameNavigatedWithinDocument(frameId, url)
OnFrameNavigatedWithinDocument(st, frameId) ==
  IF st.frames[frameId] = Null THEN st
  ELSE
    LET frame == st.frames[frameId]
        st1 == FrameOnSameDocument(st, frame)
    IN  EmitBoth([st1 EXCEPT !.emitted =
                    Append(@, Ev("manager", "FrameNavigatedWithinDocument", frame))],
                 "FrameNavigated", frame)

\* new frames.LifecycleWatcher(frame, waitUntil, timeout): the timer starts at
\* construction (timeout 0: no timer); events that already fired count.
NewWatcher(st, c, kind, frame, waitUntil, timeout) ==
  LET w == [NoCall EXCEPT !.kind = kind, !.frame = frame, !.watcher = "pending",
                          !.waitUntil = waitUntil,
                          !.deadline = IF timeout = 0 THEN 0 ELSE st.now + timeout]
  IN  [st EXCEPT !.calls[c] = WatcherCheckLifecycle(w, st.fired)]

\* this._session.send(...) (frame.evaluate(...) in setFrameContent): the command
\* leaves now; whether a watcher exists at this moment is recorded.
SendCommand(st, c) ==
  [st EXCEPT !.calls[c].send = "pending",
             !.calls[c].armed = (st.calls[c].watcher = "pending")]

\* Mutation: the call never reaches the race.
AwaitNothing(st, c) == st

\* await Promise.race([...watchDog promises])
AwaitRace(st, c) == [st EXCEPT !.calls[c].racing = TRUE]

\* Mutation: the command is sent before the watcher is constructed.
NavigateFrameSendFirst(st, c, frame, waitUntil, timeout) ==
  [NewWatcher(st, c, "navigateFrame", frame, waitUntil, timeout)
     EXCEPT !.calls[c].send = "pending", !.calls[c].armed = FALSE]

\* navigateFrame(frame, url, options) up to `await this._session.send(...)`
NavigateFrame(st, c, frame, waitUntil, timeout) ==
  SendCommand(NewWatcher(st, c, "navigateFrame", frame, waitUntil, timeout), c)

\* waitForFrameNavigation(frame, options) up to `await Promise.race(...)`
WaitForFrameNavigation(st, c, frame, waitUntil, timeout) ==
  AwaitRace(NewWatcher(st, c, "waitForFrameNavigation", frame, waitUntil, timeout), c)

\* setFrameContent(frame, html, options) up to `await frame.evaluate(...)`
SetFrameContent(st, c, frame, waitUntil, timeout) ==
  SendCommand(NewWatcher(st, c, "setFrameContent", frame, waitUntil, timeout), c)

\* The elements of the array given to Promise.all, evaluated in order:
\* this._page.waitForNavigation(options) reaches waitForFrameNavigation of the
\* main frame, then the command is sent.
WaitAndSend(st, c, kind, waitUntil, timeout) ==
  LET st1 == WaitForFrameNavigation(st, c, st.mainFrame, waitUntil, timeout)
  IN  SendCommand([st1 EXCEPT !.calls[c].kind = kind], c)

\* reload(options)
Reload(st, c, waitUntil, timeout) == WaitAndSend(st, c, "reload", waitUntil, timeout)

\* goBack(options) / goForward(options): _go(command, options)
Go(st, c, kind, waitUntil, timeout) == WaitAndSend(st, c, kind, waitUntil, timeout)

\* The command of a call.
Command(kind) ==
  CASE kind = "navigateFrame" -> "Page.navigate"
    [] kind = "reload" -> "Page.reload"
    [] kind = "goBack" -> "Page.goBack"
    [] kind = "goForward" -> "Page.goForward"
    [] OTHER -> "Runtime.evaluate"

\* Mutation: nothing is found.
IncludesNever(text, part) == FALSE

\* String.prototype.includes, on texts cut into pieces.
Includes(text, part) ==
  \E i \in 1..(Len(text) + 1 - Len(part)) : SubSeq(text, i, i + Len(part) - 1) = part

\* `Protocol error (${command}): ${text}`
ProtocolError(command, text) == <<"Protocol error (", command, "): ">> \o text

\* error.message.includes(`Protocol error (${command}): Failed to go`)
GoErrorIsBenign(command, message) ==
  Includes(message, ProtocolError(command, <<"Failed to go">>))

\* The document id under which a failed navigation request is reported.
FakeLoaderId == <<"fake-loader-id">>

\* _requestFailed(request)
RequestFailedHandler(st, request) ==
  LET frame == request.frame
      st1 == IF request.isNavigationRequest
                /\ ~Includes(request.errorText, <<"cancelled">>)
             THEN LET st2 == FrameOnExpected(
                               [st EXCEPT !.emitted = Append(@, Ev("frame", "expected", frame))],
                               frame, FakeLoaderId)
                  IN  FrameOnAborted(
                        [st2 EXCEPT !.emitted = Append(@, Ev("frame", "aborted", frame))],
                        frame, FakeLoaderId)
             ELSE st
  IN  [st1 EXCEPT !.emitted = Append(@, Ev("page", "RequestFailed", frame))]

\* The parameters of a console message: absent, or a first parameter that is
\* the binding sentinel, another text or a remote object, followed (for a
\* binding call) by the object whose id names the calling context.
BINDING_CALL_MESSAGE == "__playwright_binding_call__"

\* level === 'debug' && parameters && parameters[0].value === BINDING_CALL_MESSAGE
IsBindingCall(message) ==
  /\ message.level = "debug"
  /\ message.parameters # <<>>
  /\ message.parameters[1].value = BINDING_CALL_MESSAGE

\* this._contextIdToContext.get(id): the context, or undefined
ContextOrUndefined(st, id) == IF st.contexts[id] # NoContext THEN id ELSE Null

\* _onConsoleMessage(event) up to its return or its await
OnConsoleMessage(st, message) ==
  IF IsBindingCall(message)
  THEN [st EXCEPT !.emitted =
          Append(@, [src |-> "page", type |-> "BindingCalled",
                     frame |-> ContextOrUndefined(st, message.parameters[2].objectId)])]
  ELSE IF st.mainFrame = Null THEN Throw(st)
  ELSE
    LET id == IF message.parameters = <<>> THEN 0 ELSE message.parameters[1].objectId
    IN  [st EXCEPT !.consoleWaiting =
           Append(@, [frame |-> st.mainFrame, objectContext |-> id,
                      registered |-> id = 0 \/ st.contexts[id] # NoContext])]

\* The command's acknowledgment arrived: the awaiting call goes on to the race;
\* a concurrent call returns if its wait has ended well.
OnCommandAcked(st, c) ==
  LET w == st.calls[c] IN
  IF w.kind \in Concurrent
  THEN [st EXCEPT !.calls[c].send = "ok",
                  !.calls[c].result =
                     IF w.result = "none" /\ w.waitResult = "ok" THEN "ok" ELSE @]
  ELSE AwaitRace([st EXCEPT !.calls[c].send = "ok"], c)

\* The command failed with message: the awaiting call throws at its `await`;
\* Promise.all rejects, and _go turns the benign error into [null].
OnCommandFailed(st, c, message) ==
  LET w == st.calls[c]
      outcome == IF w.kind \in {"goBack", "goForward"}
                    /\ GoErrorIsBenign(Command(w.kind), message)
                 THEN "null" ELSE "sendFailed"
  IN  [st EXCEPT !.calls[c].send = "failed",
                 !.calls[c].result = IF w.result = "none" THEN outcome ELSE @]

\* The watcher's timer fires.
OnTimer(st, c) == [st EXCEPT !.calls[c] = WatcherOnTimer(@)]

\* this._session.send(command): the command leaves on the current session.
Send(st, command) ==
  [st EXCEPT !.emitted = Append(@, [src |-> "session", type |-> command, frame |-> st.session])]

\* Mutation: every viewport is supported.
ViewportUnsupportedNever(viewport) == FALSE

\* viewport.isMobile || viewport.isLandscape || viewport.hasTouch
ViewportUnsupported(viewport) ==
  viewport.isMobile \/ viewport.isLandscape \/ viewport.hasTouch

\* setViewport(viewport)
DoSetViewport(st, viewport) ==
  IF ViewportUnsupported(viewport) THEN Throw(st)
  ELSE Send(st, "Emulation.setDeviceMetricsOverride")

\* setEmulateMedia(mediaType, mediaColorScheme); "null" stands for null
DoSetEmulateMedia(st, mediaType, mediaColorScheme) ==
  IF mediaColorScheme # "null" THEN Throw(st)
  ELSE Send(st, "Page.setEmulatedMedia")

\* closePage(runBeforeUnload): the browser is asked to close the page's target.
DoClosePage(st, runBeforeUnload) ==
  IF runBeforeUnload THEN Throw(st)
  ELSE [st EXCEPT !.emitted = Append(@, [src |-> "browser", type |-> "closePage", frame |-> Null])]

UTILITY_WORLD_NAME == "__playwright_utility_world__"

\* session.send(command) on a session that need not be the current one.
SendOn(st, s, command) ==
  [st EXCEPT !.emitted = Append(@, [src |-> "session", type |-> command, frame |-> s])]

\* _ensureIsolatedWorld(name): the name is noted before the command leaves, on
\* whatever session is current; without a current session the send throws.
EnsureIsolatedWorld(st, name) ==
  IF name \in st.isolatedWorlds THEN st
  ELSE
    LET st1 == [st EXCEPT !.isolatedWorlds = @ \cup {name}]
    IN  IF st1.session = Null THEN Throw(st1)
        ELSE [Send(st1, "Page.createIsolatedWorld")
                EXCEPT !.worldsSent[st1.session] = @ + 1,
                       !.sentSinceSet = @ + 1]

\* _initializeSession(session), up to its first await: the agents are enabled
\* on the session passed in. (The commands that depend on the page's emulation
\* state and the network manager's are left out.)
DoInitializeSession(st, s) ==
  LET st1 == SendOn(st, s, "Page.enable")
      st2 == SendOn(st1, s, "Page.getResourceTree")
      st3 == SendOn(st2, s, "Runtime.enable")
      st4 == SendOn(st3, s, "Console.enable")
      st5 == SendOn(st4, s, "Page.setInterceptFileChooserDialog")
  IN  [st5 EXCEPT !.enabling[s] = @ + 1]

\* The reply to the Runtime.enable of session s: .then(() =>
\* this._ensureIsolatedWorld(UTILITY_WORLD_NAME))
OnRuntimeEnabled(st, s) ==
  EnsureIsolatedWorld([st EXCEPT !.enabling[s] = @ - 1, !.enabled = @ \cup {s}],
                      UTILITY_WORLD_NAME)

\* ----------------------------------------------------------------- actions

InitManager ==
  /\ frames = [f \in FrameIds |-> Null]
  /\ mainFrame = Null
  /\ nObjs = 0
  /\ frameData = [h \in Handles |-> Null]
  /\ parentFrame = [h \in Handles |-> Null]
  /\ childFrames = [h \in Handles |-> <<>>]
  /\ detached = [h \in Handles |-> FALSE]
  /\ contexts = [c \in ContextIds |-> NoContext]
  /\ worldContext = [h \in Handles |-> NoWorlds]
  /\ fired = [h \in Handles |-> {}]
  /\ calls = [c \in CallIds |-> NoCall]
  /\ now = 0
  /\ consoleWaiting = <<>>
  /\ lastDocumentId = 0
  /\ committed = <<>>
  /\ session = Null
  /\ sessionListeners = {}
  /\ isolatedWorlds = {}
  /\ enabling = [s \in Sessions |-> 0]
  /\ enabled = {}
  /\ worldsSent = [s \in Sessions |-> 0]
  /\ sentSinceSet = 0
  /\ emitted = <<>>
  /\ notified = {}
  /\ threw = FALSE
  /\ last = Call("constructor", Null, Null)

\* No task runner was created.
NoRunner == [created |-> FALSE]

Init == InitManager /\ runner = NoRunner

\* Page.frameAttached delivered by a session the manager listens to.
AttachedUpTo(n) ==
  \E s \in sessionListeners, id \in FrameIds, parentId \in FrameIds \cup {Null} :
    /\ nObjs < n
    /\ Commit(OnFrameAttached(Cur, id, parentId))
    /\ last' = Call("attach", id, parentId)

FrameAttached == AttachedUpTo(MaxFrames)

FrameAttachedFew == AttachedUpTo(MaxContextFrames)

\* The parentId of a Page.frameNavigated payload for frame id: none, or the id of
\* the frame's parent; the handler reads it only to tell the main frame from
\* the others, so for a frame without a registered parent one id stands for all.
PayloadParentIds(id) ==
  LET h == frames[id]
      p == IF h = Null THEN Null ELSE parentFrame[h]
  IN  {Null} \cup (IF p # Null /\ frames[frameData[p]] = p THEN {frameData[p]}
                   ELSE {CHOOSE q \in FrameIds : q # id})

\* Page.frameNavigated, the payload's loaderId drawn from loaders.
NavigatedWith(loaders) ==
  \E s \in sessionListeners, id \in FrameIds, loaderId \in loaders :
   \E parentId \in PayloadParentIds(id) :
    /\ lastDocumentId < MaxDocs
    /\ Commit(OnFrameNavigated(Cur, Node(id, parentId, loaderId, <<>>), FALSE))
    /\ last' = Call("navigate", id, parentId)

FrameNavigated == NavigatedWith({<<"L">>})

FrameNavigatedAnyLoader == NavigatedWith(LoaderIds)

\* Page.frameDetached
FrameDetached ==
  \E s \in sessionListeners, id \in FrameIds :
    /\ Commit(OnFrameDetached(Cur, id))
    /\ last' = Call("detach", id, Null)

\* Runtime.executionContextCreated, the payload's world drawn from worlds.
ContextCreatedIn(worlds) ==
  \E s \in sessionListeners, c \in ContextIds, id \in FrameIds, world \in worlds :
    /\ Commit(OnExecutionContextCreated(Cur, c, id, world))
    /\ last' = Call("contextCreated", c, id)

\* Contexts that are neither the page's nor the utility world's.
ExecutionContextCreated == ContextCreatedIn({"other"})

ExecutionContextCreatedAnyWorld == ContextCreatedIn(Worlds)

\* _initializeSession(session): the Page.getResourceTree reply arrives.
ResourceTree ==
  \E t \in FrameTrees :
    /\ nObjs + TreeSize(t) <= MaxFrames
    /\ lastDocumentId + TreeSize(t) <= MaxDocs
    /\ Commit(HandleFrameTree(Cur, t))
    /\ last' = [op |-> "frameTree", id |-> t.id, parentId |-> Null, tree |-> t]

\* setSession(s) for a session s of ss.
SetSessionTo(ss) ==
  \E s \in ss :
    /\ \A c \in ContextIds : contexts[c].disposals < MaxDisposals
    /\ Commit(DoSetSession(Cur, s))
    /\ last' = Call("setSession", s, Null)

SetSession == SetSessionTo(Sessions)

\* The frame registry does not depend on which session delivers its events.
SetFirstSession == SetSessionTo({1})

\* The first setSession after construction.
InitialSetSession == session = Null /\ SetSessionTo({1})

DidClose ==
  /\ \A c \in ContextIds : contexts[c].disposals < MaxDisposals
  /\ Commit(DoDidClose(Cur))
  /\ last' = Call("didClose", Null, Null)

\* The frame registry under attach, navigate, detach and snapshot replay.
Next ==
  \/ SetFirstSession
  \/ FrameAttached
  \/ FrameNavigated
  \/ FrameDetached
  \/ ResourceTree

Spec == Init /\ [][Next]_vars

\* Navigations whose payloads carry colliding loader ids.
NextDocs ==
  \/ SetFirstSession
  \/ FrameAttachedFew
  \/ FrameNavigatedAnyLoader
  \/ ResourceTree

SpecDocs == Init /\ [][NextDocs]_vars

\* The protocol id under which frame h is registered.
IdOf(h) == CHOOSE id \in FrameIds : frames[id] = h

\* Page.frameAttached for the frames of a chain: 1, its child 2, ...
FrameAttachedInOrder ==
  \E s \in sessionListeners :
    /\ nObjs < MaxContextFrames
    /\ nObjs + 1 \in FrameIds
    /\ Commit(OnFrameAttached(Cur, nObjs + 1, nObjs))
    /\ last' = Call("attach", nObjs + 1, nObjs)

\* Page.frameNavigated for a registered frame, under its own id.
FrameNavigatedInPlace ==
  \E s \in sessionListeners, id \in FrameIds :
    /\ lastDocumentId < MaxDocs
    /\ frames[id] # Null
    /\ LET p == parentFrame[frames[id]]
           parentId == IF p = Null THEN Null ELSE IdOf(p)
       IN  /\ Commit(OnFrameNavigated(Cur, Node(id, parentId, <<"L">>, <<>>), FALSE))
           /\ last' = Call("navigate", id, parentId)

\* Runtime.executionContextCreated for a registered frame, under one of the
\* first two context ids.
ExecutionContextCreatedInFrame ==
  \E s \in sessionListeners, c \in {1, 2}, id \in FrameIds :
    /\ frames[id] # Null
    /\ Commit(OnExecutionContextCreated(Cur, c, id, "other"))
    /\ last' = Call("contextCreated", c, id)

\* New-document navigations of frames that own execution contexts, and the
\* initial navigations of a snapshot.
NextNavigation ==
  \/ SetFirstSession
  \/ FrameAttachedInOrder
  \/ ExecutionContextCreatedInFrame
  \/ FrameNavigated
  \/ ResourceTree

SpecNavigation == Init /\ [][NextNavigation]_vars

\* Execution contexts over a registry of at most MaxContextFrames frames.
NextContexts ==
  \/ SetSession
  \/ DidClose
  \/ FrameAttachedInOrder
  \/ FrameNavigatedInPlace
  \/ FrameDetached
  \/ ExecutionContextCreated

SpecContexts == Init /\ [][NextContexts]_vars

\* Context creation for every world, on one session.
NextCreate ==
  \/ InitialSetSession
  \/ FrameAttachedFew
  \/ ExecutionContextCreatedAnyWorld

SpecCreate == Init /\ [][NextCreate]_vars

\* What the caller may pass as waitUntil and as timeout (0: none).
WaitUntils == {{"load"}, {"domcontentloaded", "load"}}
Timeouts == 0..MaxTime

\* The texts a failing command may carry.
ErrorTexts == <<<<"Failed to go", " back">>, <<"Failed to go", " forward">>,
                <<"Target closed">>>>

\* The navigation operations of the public API.
Operations == {"navigateFrame", "waitForFrameNavigation", "setFrameContent",
               "reload", "goBack", "goForward"}

StartOperation(st, c, kind, frame, waitUntil, timeout) ==
  CASE kind = "navigateFrame" -> NavigateFrame(st, c, frame, waitUntil, timeout)
    [] kind = "waitForFrameNavigation" ->
         WaitForFrameNavigation(st, c, frame, waitUntil, timeout)
    [] kind = "setFrameContent" -> SetFrameContent(st, c, frame, waitUntil, timeout)
    [] kind = "reload" -> Reload(st, c, waitUntil, timeout)
    [] OTHER -> Go(st, c, kind, waitUntil, timeout)

\* A caller starts one of kinds on a registered frame (reload and go wait on
\* the main frame), in the next free slot.
StartCall(kinds, waits, timeouts) ==
  \E c \in CallIds, kind \in kinds, frame \in Handles, waitUntil \in waits,
     timeout \in timeouts :
    /\ session # Null
    /\ calls[c].kind = "none"
    /\ \A d \in 1..(c - 1) : calls[d].kind # "none"
    /\ IF kind \in Concurrent THEN frame = mainFrame
       ELSE \E id \in FrameIds : frames[id] = frame
    /\ now + timeout <= MaxTime
    /\ Commit(StartOperation(Cur, c, kind, frame, waitUntil, timeout))
    /\ last' = Call(kind, c, frame)

\* The response to a command in flight.
CommandAcked ==
  \E c \in CallIds :
    /\ calls[c].send = "pending"
    /\ Commit(OnCommandAcked(Cur, c))
    /\ last' = Call("acked", c, Null)

CommandFailed ==
  \E c \in CallIds, e \in 1..Len(ErrorTexts) :
    /\ calls[c].send = "pending"
    /\ Commit(OnCommandFailed(Cur, c, ProtocolError(Command(calls[c].kind), ErrorTexts[e])))
    /\ last' = Call("failed", c, e)

\* Time passes.
Tick ==
  /\ now < MaxTime
  /\ Commit([Cur EXCEPT !.now = @ + 1])
  /\ last' = Call("tick", Null, Null)

\* A due timer of a watcher that still listens fires (dispose clears it).
TimerFired ==
  \E c \in CallIds :
    /\ Listening(calls[c]) /\ calls[c].tor = "none"
    /\ calls[c].deadline # 0 /\ now >= calls[c].deadline
    /\ Commit(OnTimer(Cur, c))
    /\ last' = Call("timer", c, Null)

\* Page.domContentEventFired / Page.loadEventFired
LifecycleEvent ==
  \E s \in sessionListeners, frameId \in FrameIds, event \in Lifecycle :
    /\ Commit(OnLifecycleEvent(Cur, frameId, event))
    /\ last' = Call("lifecycle", frameId, Null)

\* Page.frameStoppedLoading
FrameStoppedLoading ==
  \E s \in sessionListeners, frameId \in FrameIds :
    /\ Commit(OnFrameStoppedLoading(Cur, frameId))
    /\ last' = Call("stoppedLoading", frameId, Null)

\* Page.navigatedWithinDocument
FrameNavigatedWithinDocument ==
  \E s \in sessionListeners, frameId \in FrameIds :
    /\ Commit(OnFrameNavigatedWithinDocument(Cur, frameId))
    /\ last' = Call("sameDocument", frameId, Null)

StartAnyCall == StartCall(Operations, {{"load"}}, {0})

\* The navigation operations between a session and its replacement.
NextWatch ==
  \/ InitialSetSession
  \/ FrameAttachedInOrder
  \/ FrameNavigatedInPlace
  \/ StartAnyCall
  \/ CommandAcked
  \/ CommandFailed

SpecWatch == Init /\ [][NextWatch]_vars

StartWaitingCall ==
  StartCall({"navigateFrame", "waitForFrameNavigation", "setFrameContent"}, {{"load"}}, {0})

\* Waiting calls while the session is replaced.
NextSwap ==
  \/ SetSession
  \/ FrameAttachedInOrder
  \/ FrameNavigatedInPlace
  \/ StartWaitingCall
  \/ CommandAcked

SpecSwap == Init /\ [][NextSwap]_vars

StartWait == StartCall({"waitForFrameNavigation"}, WaitUntils, {0})

\* Lifecycle events and navigations while a caller waits for a navigation.
NextLifecycle ==
  \/ InitialSetSession
  \/ FrameAttachedInOrder
  \/ FrameNavigatedInPlace
  \/ FrameNavigatedWithinDocument
  \/ LifecycleEvent
  \/ FrameStoppedLoading
  \/ StartWait

SpecLifecycle == Init /\ [][NextLifecycle]_vars

\* Page.frameAttached for the main frame.
FrameAttachedMain == nObjs = 0 /\ FrameAttachedInOrder

StartNavigate == StartCall({"navigateFrame"}, WaitUntils, Timeouts)

\* navigateFrame while no navigation event arrives.  The clock advances, a due
\* timer fires and the transport answers every command.
NextTimeout ==
  \/ InitialSetSession
  \/ FrameAttachedMain
  \/ StartNavigate
  \/ CommandAcked
  \/ CommandFailed
  \/ Tick
  \/ TimerFired

SpecTimeout ==
  /\ Init /\ [][NextTimeout]_vars
  /\ WF_vars(Tick) /\ WF_vars(TimerFired) /\ WF_vars(CommandAcked \/ CommandFailed)

\* request.failure().errorText of a failed request.
FailureTexts == <<<<"cancelled">>, <<"Load request ", "cancelled">>,
                  <<"Cancelled">>, <<"net::ERR_CONNECTION_REFUSED">>>>

\* NetworkManagerEvents.RequestFailed for a request of a frame ever created.
RequestFailed ==
  \E frame \in Handles, isNavigationRequest \in BOOLEAN, e \in 1..Len(FailureTexts) :
    /\ frame <= nObjs
    /\ Commit(RequestFailedHandler(Cur, [frame |-> frame,
                                         isNavigationRequest |-> isNavigationRequest,
                                         errorText |-> FailureTexts[e]]))
    /\ last' = Call(IF isNavigationRequest THEN "navigationRequestFailed"
                    ELSE "requestFailed", frame, e)

\* Requests failing while callers wait for a navigation.
NextRequests ==
  \/ InitialSetSession
  \/ FrameAttachedInOrder
  \/ StartWait
  \/ RequestFailed

SpecRequests == Init /\ [][NextRequests]_vars

\* Console messages awaiting a context at one time.
MaxWaiting == 1

\* A remote object of context id, or a plain value.
RemoteObject(id) == [value |-> "", objectId |-> id]
PlainValue(v) == [value |-> v, objectId |-> 0]

\* The parameter lists of console messages.
ConsoleParameters ==
  {<<>>} \cup {<<PlainValue("text")>>}
         \cup {<<RemoteObject(c)>> : c \in ContextIds}
         \cup {<<PlainValue(BINDING_CALL_MESSAGE), RemoteObject(c), PlainValue("arg")>> :
                  c \in ContextIds}

\* Console.messageAdded
ConsoleMessage ==
  \E s \in sessionListeners, level \in {"debug", "log"}, ps \in ConsoleParameters :
    /\ Len(consoleWaiting) < MaxWaiting
    /\ Commit(OnConsoleMessage(Cur, [level |-> level, parameters |-> ps]))
    /\ last' = Call("console." \o level,
                    IF ps # <<>> /\ ps[1].value = BINDING_CALL_MESSAGE THEN 1 ELSE 0,
                    IF Len(ps) > 1 THEN ps[2].objectId ELSE Null)

\* Console messages while contexts come into being.
NextConsole ==
  \/ InitialSetSession
  \/ FrameAttachedInOrder
  \/ ExecutionContextCreatedAnyWorld
  \/ ConsoleMessage

SpecConsole == Init /\ [][NextConsole]_vars

\* Console messages whose handler is overtaken by a navigation.
NextRehydrate ==
  \/ InitialSetSession
  \/ FrameAttachedInOrder
  \/ ExecutionContextCreatedAnyWorld
  \/ FrameNavigatedInPlace
  \/ ConsoleMessage

SpecRehydrate == Init /\ [][NextRehydrate]_vars

\* Number of truth values that are TRUE.
CountTrue(bs) == Len(SelectSeq(bs, LAMBDA b : b))

\* page.setViewport(viewport)
SetViewport ==
  \E isMobile \in BOOLEAN, isLandscape \in BOOLEAN, hasTouch \in BOOLEAN :
    /\ session # Null
    /\ Commit(DoSetViewport(Cur, [isMobile |-> isMobile, isLandscape |-> isLandscape,
                                  hasTouch |-> hasTouch]))
    /\ last' = Call("setViewport", CountTrue(<<isMobile, isLandscape, hasTouch>>), Null)

\* page.emulateMedia(options)
SetEmulateMedia ==
  \E mediaType \in {"null", "screen", "print"},
     mediaColorScheme \in {"null", "dark", "light"} :
    /\ session # Null
    /\ Commit(DoSetEmulateMedia(Cur, mediaType, mediaColorScheme))
    /\ last' = Call("setEmulateMedia", IF mediaColorScheme = "null" THEN 0 ELSE 1, Null)

\* page.close(options)
ClosePage ==
  \E runBeforeUnload \in BOOLEAN :
    /\ session # Null
    /\ Commit(DoClosePage(Cur, runBeforeUnload))
    /\ last' = Call("closePage", IF runBeforeUnload THEN 1 ELSE 0, Null)

\* Emulation requests over a changing frame tree and session.
NextEmulation ==
  \/ SetSession
  \/ FrameAttachedInOrder
  \/ FrameNavigatedInPlace
  \/ SetViewport
  \/ SetEmulateMedia
  \/ ClosePage

SpecEmulation == Init /\ [][NextEmulation]_vars

\* Session s emits Page.frameAttached: handled if a listener is on s.
SessionEmitsFrameAttached ==
  \E s \in Sessions :
    /\ nObjs < MaxContextFrames
    /\ nObjs + 1 \in FrameIds
    /\ Commit(IF s \in sessionListeners THEN OnFrameAttached(Cur, nObjs + 1, nObjs)
              ELSE Cur)
    /\ last' = Call("emitsAttached", s, nObjs + 1)

\* Session s emits Runtime.executionContextCreated.
SessionEmitsContextCreated ==
  \E s \in Sessions, c \in {1}, id \in FrameIds :
    /\ id <= nObjs + 1
    /\ Commit(IF s \in sessionListeners
              THEN OnExecutionContextCreated(Cur, c, id, "main") ELSE Cur)
    /\ last' = Call("emitsContextCreated", s, c)

\* Session s emits Page.frameDetached.
SessionEmitsFrameDetached ==
  \E s \in Sessions, id \in FrameIds :
    /\ Commit(IF s \in sessionListeners THEN OnFrameDetached(Cur, id) ELSE Cur)
    /\ last' = Call("emitsDetached", s, id)

MaxEnabling == 2
MaxWorldCommands == 2

\* _initializeSession(s) for the current or a provisional session, once the
\* manager has a session.
InitializeSession ==
  \E s \in Sessions :
    /\ session # Null
    /\ enabling[s] < MaxEnabling
    /\ Commit(DoInitializeSession(Cur, s))
    /\ last' = Call("initializeSession", s, Null)

\* Session s replies to a Runtime.enable.
RuntimeEnabled ==
  \E s \in Sessions :
    /\ enabling[s] > 0
    /\ \A t \in Sessions : worldsSent[t] < MaxWorldCommands
    /\ Commit(OnRuntimeEnabled(Cur, s))
    /\ last' = Call("runtimeEnabled", s, Null)

\* Sessions initialised while current or provisional, and made current.
NextWorlds ==
  \/ SetSession
  \/ InitializeSession
  \/ RuntimeEnabled

SpecWorlds == Init /\ [][NextWorlds]_vars

\* Events of current and replaced sessions between setSession and didClose.
NextSessions ==
  \/ SetSession
  \/ DidClose
  \/ SessionEmitsFrameAttached
  \/ SessionEmitsContextCreated
  \/ SessionEmitsFrameDetached

SpecSessions == Init /\ [][NextSessions]_vars

\* ------------------------------------------------- runner/tasks.ts

\* Plugins handed to createTaskRunner.
MaxPlugins == 2
\* Tests a load may find, and errors it may report.
MaxTests == 2
MaxLoadErrors == 1

PluginNames == {"a", "b"}

RECURSIVE SeqsUpTo(_, _)
\* The sequences over S of length at most n.
SeqsUpTo(S, n) ==
  IF n = 0 THEN {<<>>}
  ELSE LET shorter == SeqsUpTo(S, n - 1)
       IN  shorter \cup {Append(q, x) : q \in shorter, x \in S}

\* taskRunner.addTask(name, task): a task of the pipeline; plugin names the
\* plugin a 'plugin setup' task was created for.
Task(name, plugin) == [name |-> name, plugin |-> plugin]

RECURSIVE PluginSetupTasks(_)
\* for (const plugin of plugins) taskRunner.addTask('plugin setup', ...)
PluginSetupTasks(plugins) ==
  IF plugins = <<>> THEN <<>>
  ELSE <<Task("plugin setup", Head(plugins))>> \o PluginSetupTasks(Tail(plugins))

\* Mutation: only globalSetup counts.
GlobalSetupOnly(config) == config.globalSetup

\* config.globalSetup || config.globalTeardown
HasGlobalHooks(config) == config.globalSetup \/ config.globalTeardown

\* createTaskRunner(config, reporter, plugins, options): the tasks in the order
\* they are added.
CreateTaskRunner(config, plugins, options) ==
  PluginSetupTasks(plugins)
    \o (IF HasGlobalHooks(config) THEN <<Task("global setup", "")>> ELSE <<>>)
    \o <<Task("load tests", "")>>
    \o (IF ~options.listOnly
        THEN <<Task("prepare to run", ""), Task("plugin begin", "")>> ELSE <<>>)
    \o <<Task("report begin", "")>>
    \o (IF ~options.listOnly
        THEN <<Task("setup workers", ""), Task("test suite", "")>> ELSE <<>>)

\* What loadAllTests came back with: the tests of the root suite and the
\* errors it pushed.
NotLoaded == [tests |-> -1, errors |-> 0]

\* The task of createLoadTask, given what loadAllTests returned. One test group
\* per test stands for createTestGroups; no shard is configured.
LoadTask(r, loaded) ==
  LET testGroups == IF r.options.listOnly THEN 0 ELSE loaded.tests
      r1 == [r EXCEPT !.loaded = loaded, !.testGroups = testGroups,
                      !.errors = loaded.errors]
  IN  IF loaded.errors > 0 THEN r1
      ELSE IF loaded.tests = 0 /\ ~r.options.passWithNoTests
      THEN [r1 EXCEPT !.thrown = "No tests found"]
      ELSE IF ~r.options.listOnly
      THEN [r1 EXCEPT !.maxConcurrentTestGroups = testGroups]
      ELSE r1

\* A runner over the tasks of createTaskRunner, none of them run.
NewRunner(config, plugins, options) ==
  [created |-> TRUE, config |-> config, plugins |-> plugins, options |-> options,
   tasks |-> CreateTaskRunner(config, plugins, options),
   ran |-> <<>>, interrupted |-> FALSE, errors |-> 0, thrown |-> "",
   loaded |-> NotLoaded, testGroups |-> 0, maxConcurrentTestGroups |-> 0,
   setUp |-> <<>>, begun |-> <<>>, removedOutputDirs |-> FALSE,
   reported |-> FALSE, dispatcher |-> FALSE, dispatched |-> FALSE]

Configs == [globalSetup : BOOLEAN, globalTeardown : BOOLEAN]
Options == [listOnly : BOOLEAN, passWithNoTests : BOOLEAN]

\* TaskRunner.run: the next task, when no task before it failed.
NextTask == runner.tasks[Len(runner.ran) + 1]

Runs(name) ==
  /\ runner.created
  /\ ~runner.interrupted
  /\ Len(runner.ran) < Len(runner.tasks)
  /\ NextTask.name = name

\* TaskRunner.run after a task returned or threw: a task with errors
\* interrupts the run.
Ran(r, name) ==
  [r EXCEPT !.ran = Append(@, name),
            !.interrupted = r.errors > 0 \/ r.thrown # ""]

\* A task starts with no errors of its own.
Starting == [runner EXCEPT !.errors = 0, !.thrown = ""]

CreateRunner ==
  \E config \in Configs, options \in Options, plugins \in SeqsUpTo(PluginNames, MaxPlugins) :
    /\ ~runner.created
    /\ runner' = NewRunner(config, plugins, options)
    /\ UNCHANGED managerVars

\* createPluginSetupTask(plugin): plugin.setup, which may throw.
RunPluginSetup ==
  \E ok \in BOOLEAN :
    /\ Runs("plugin setup")
    /\ runner' = Ran([Starting EXCEPT !.setUp = Append(@, NextTask.plugin),
                                      !.thrown = IF ok THEN "" ELSE "setup failed"],
                     "plugin setup")
    /\ UNCHANGED managerVars

\* createGlobalSetupTask(): the hooks, which may throw.
RunGlobalSetup ==
  \E ok \in BOOLEAN :
    /\ Runs("global setup")
    /\ runner' = Ran([Starting EXCEPT !.thrown = IF ok THEN "" ELSE "hook failed"],
                     "global setup")
    /\ UNCHANGED managerVars

RunLoadTests ==
  \E tests \in 0..MaxTests, errors \in 0..MaxLoadErrors :
    /\ Runs("load tests")
    /\ runner' = Ran(LoadTask(Starting, [tests |-> tests, errors |-> errors]), "load tests")
    /\ UNCHANGED managerVars

\* createRemoveOutputDirsTask()
RunPrepareToRun ==
  /\ Runs("prepare to run")
  /\ runner' = Ran([Starting EXCEPT !.removedOutputDirs = TRUE], "prepare to run")
  /\ UNCHANGED managerVars

\* for (const plugin of plugins) await plugin.begin?.(rootSuite)
RunPluginBegin ==
  /\ Runs("plugin begin")
  /\ runner' = Ran([Starting EXCEPT !.begun = runner.plugins], "plugin begin")
  /\ UNCHANGED managerVars

\* reporter.onBegin?.(config, rootSuite)
RunReportBegin ==
  /\ Runs("report begin")
  /\ runner' = Ran([Starting EXCEPT !.reported = TRUE], "report begin")
  /\ UNCHANGED managerVars

\* createSetupWorkersTask(): params.dispatcher = new Dispatcher(...)
RunSetupWorkers ==
  /\ Runs("setup workers")
  /\ runner' = Ran([Starting EXCEPT !.dispatcher = TRUE], "setup workers")
  /\ UNCHANGED managerVars

\* dispatcher.run()
RunTestSuite ==
  /\ Runs("test suite")
  /\ runner' = Ran([Starting EXCEPT !.dispatched = runner.dispatcher], "test suite")
  /\ UNCHANGED managerVars

\* The task pipeline of the test runner, created and run.
NextTasks ==
  \/ CreateRunner
  \/ RunPluginSetup
  \/ RunGlobalSetup
  \/ RunLoadTests
  \/ RunPrepareToRun
  \/ RunPluginBegin
  \/ RunReportBegin
  \/ RunSetupWorkers
  \/ RunTestSuite

SpecTasks == Init /\ [][NextTasks]_vars

\* ------------------------------------------------------------------ claims

\* The Frames currently in the registry: frames().
Registered == {frames[f] : f \in FrameIds} \ {Null}

\* The Frames below h in the tree of child lists cf.
RECURSIVE Descendants(_, _)
Descendants(cf, h) ==
  UNION {{cf[h][i]} \cup Descendants(cf, cf[h][i]) : i \in 1..Len(cf[h])}

\* The frames of the events of one kind and source in a log, in order.
EventsOf(log, src, type) ==
  SelectSeq(log, LAMBDA e : e.src = src /\ e.type = type)

Range(seq) == {seq[i] : i \in 1..Len(seq)}

\* C1: once a main frame is installed, mainFrame() keeps returning that same
\* Frame over every later attach, navigate, detach and snapshot replay.
C1_MainFrameIdentity == [][mainFrame # Null => mainFrame' = mainFrame]_vars

\* C2: after the first attach exactly one Frame of the registry has no parent,
\* and it is mainFrame().
C2_OneParentlessFrame ==
  nObjs > 0 => {h \in Registered : parentFrame[h] = Null} = {mainFrame}

\* C3: a frameDetached for a registered frame with N descendants emits exactly
\* N+1 FrameDetached events (on the manager and on the page), every child's
\* before its parent's, and leaves none of the N+1 frames in the registry.
C3_DetachStep ==
  (last'.op = "detach" /\ frames[last'.id] # Null) =>
    LET h == frames[last'.id]
        D == {h} \cup Descendants(childFrames, h)
        evs == EventsOf(emitted', "manager", "FrameDetached")
    IN  /\ Len(evs) = Cardinality(D)
        /\ {e.frame : e \in Range(evs)} = D
        /\ \A i, j \in 1..Len(evs) :
              parentFrame[evs[i].frame] = evs[j].frame => i < j
        /\ [i \in 1..Len(evs) |-> evs[i].frame]
             = [i \in 1..Len(evs) |-> EventsOf(emitted', "page", "FrameDetached")[i].frame]
        /\ Len(emitted') = 2 * Len(evs)
        /\ \A f \in FrameIds : frames'[f] \notin D

C3_RecursiveDetach == [][C3_DetachStep]_vars

\* C3 witness: a detach that removed a frame together with two descendants.
C3_Witness ==
  /\ last.op = "detach"
  /\ Len(EventsOf(emitted, "manager", "FrameDetached")) = 3

\* C4: a frameNavigated that returns leaves no former descendant of the
\* navigated frame in the registry and emitted FrameDetached for each of them.
C4_NavigateStep ==
  (last'.op = "navigate" /\ ~threw') =>
    LET F == IF last'.parentId = Null THEN mainFrame ELSE frames[last'.id]
        D == Descendants(childFrames, F)
    IN  \A d \in D :
          /\ \A f \in FrameIds : frames'[f] # d
          /\ Ev("manager", "FrameDetached", d) \in Range(emitted')
          /\ Ev("page", "FrameDetached", d) \in Range(emitted')

C4_NavigationDetachesChildren == [][C4_NavigateStep]_vars

\* C4 witness: a navigation that detached a child and a grandchild.
C4_Witness ==
  /\ last.op = "navigate"
  /\ ~threw
  /\ Len(EventsOf(emitted, "manager", "FrameDetached")) = 2

\* C5: no two committed document ids are equal, whatever loader ids the
\* payloads carried.
C5_DistinctDocumentIds ==
  \A i, j \in 1..Len(committed) : i # j => committed[i] # committed[j]

\* C5 witness: two documents were committed from payloads with one loaderId.
C5_Witness ==
  \E i, j \in 1..Len(committed), l \in LoaderIds :
    /\ i < j
    /\ committed[i] = DocumentId(l, i)
    /\ committed[j] = DocumentId(l, j)

\* C6: a Frame for which FrameDetached was emitted is never in the registry
\* again.
C6_DetachedNeverRegistered == \A h \in Registered : ~detached[h]

\* C7: an attach of a frame id that is in the registry throws and changes
\* nothing; the frames of the registry have pairwise different frame ids.
C7_UniqueIds ==
  \A f, g \in FrameIds :
    (f # g /\ frames[f] # Null /\ frames[g] # Null) =>
      /\ frames[f] # frames[g]
      /\ frameData[frames[f]] # frameData[frames[g]]

C7_DuplicateAttachStep ==
  (last'.op = "attach" /\ frames[last'.id] # Null) =>
    /\ threw'
    /\ emitted' = <<>>
    /\ UNCHANGED <<frames, mainFrame, nObjs, frameData, parentFrame, childFrames,
                   detached, contexts>>

C7_DuplicateAttachFails == []C7_UniqueIds /\ [][C7_DuplicateAttachStep]_vars

\* C7 witness: an attach was rejected while two frames were registered.
C7_Witness ==
  /\ last.op = "attach"
  /\ threw
  /\ Cardinality(Registered) >= 2

\* C8: a frameNavigated or frameDetached naming a frame id that is not in the
\* registry does not throw, changes nothing and emits nothing.
C8_UnknownFrameStep ==
  (last'.op \in {"navigate", "detach"} /\ frames[last'.id] = Null) =>
    /\ ~threw'
    /\ emitted' = <<>>
    /\ UNCHANGED <<frames, mainFrame, frameData, parentFrame, childFrames, detached>>

C8_UnknownFrameIsNoOp == [][C8_UnknownFrameStep]_vars

\* C9: after setSession or didClose the context registry is empty, every
\* context was unregistered before its frame was notified, and no context
\* object is disposed twice.
C9_DisposeAll ==
  /\ last.op \in {"setSession", "didClose"} =>
       /\ \A c \in ContextIds : contexts[c] = NoContext
       /\ \A n \in notified : ~n.registered
  /\ \A c \in ContextIds : contexts[c].disposals <= 1

\* C10: the owning frame of every registered context is in the frame registry.
C10_ContextOwnerRegistered ==
  \A c \in ContextIds : contexts[c] # NoContext => contexts[c].frame \in Registered

\* C11: an executionContextCreated whose id is registered, or whose frame id is
\* not in the frame registry, changes neither registry, notifies no frame and
\* emits nothing.
C11_CreateStep ==
  (/\ last'.op = "contextCreated"
   /\ (contexts[last'.id] # NoContext \/ frames[last'.parentId] = Null)) =>
    /\ emitted' = <<>>
    /\ ~threw'
    /\ UNCHANGED <<contexts, worldContext, frames, mainFrame>>

C11_CreateIdempotent == [][C11_CreateStep]_vars

\* C11 witness: a create for a registered id naming another registered frame
\* was ignored.
C11_Witness ==
  /\ last.op = "contextCreated"
  /\ emitted = <<>>
  /\ contexts[last.id] # NoContext
  /\ frames[last.parentId] # Null
  /\ contexts[last.id].frame # frames[last.parentId]

\* C12: when navigateFrame, waitForFrameNavigation or setFrameContent has
\* returned or thrown, the watcher the call created has been disposed.
C12_WatcherDisposedOnExit ==
  \A c \in CallIds :
    (/\ calls[c].kind \in {"navigateFrame", "waitForFrameNavigation", "setFrameContent"}
     /\ calls[c].result # "none") => calls[c].watcher = "disposed"

\* C13: a command is sent only by a call whose watcher exists.
C13_ArmedAtSend == \A c \in CallIds : calls[c].send # "none" => calls[c].armed

\* C13: a new document committed in the watched frame (the frame the event's
\* id names once handled) while the command is unacknowledged settles the
\* watcher's new-document promise.
C13_ObservedStep ==
  \A c \in CallIds :
    (/\ calls[c].send = "pending"
     /\ last'.op = "navigate"
     /\ frames'[last'.id] = calls[c].frame) => calls'[c].newDoc = "ok"

\* C13: in navigateFrame, setFrameContent, reload, goBack and goForward the
\* watcher exists before the command is sent, and navigation events delivered
\* before the acknowledgment are observed by it.
C13_ArmedBeforeSend == [](C13_ArmedAtSend) /\ [][C13_ObservedStep]_vars

\* C13 witness: navigateFrame's watcher has seen the new document while
\* Page.navigate is still unacknowledged.
C13_Witness ==
  \E c \in CallIds :
    /\ calls[c].kind = "navigateFrame" /\ calls[c].send = "pending"
    /\ calls[c].armed /\ calls[c].newDoc = "ok" /\ last.op = "navigate"

\* C14: when setSession replaces a session, every watcher still pending
\* observes Terminated.
C14_SwapStep ==
  (last'.op = "setSession" /\ session # Null) =>
    \A c \in CallIds : Listening(calls[c]) => calls'[c].tor = "terminated"

C14_SessionSwapTerminates == [][C14_SwapStep]_vars

\* C20: after goBack / goForward returned the coerced null, no watcher created
\* for the call is left pending.
C20_NoWatcherLeftPending ==
  \A c \in CallIds :
    (calls[c].kind \in {"goBack", "goForward"} /\ calls[c].result = "null") =>
      calls[c].watcher # "pending"

\* C15: a pending waitForFrameNavigation resolves with no error once every
\* lifecycle event it requires has fired for the frame's current document.
C15_LifecycleStep ==
  \A c \in CallIds :
    (/\ calls[c].kind = "waitForFrameNavigation" /\ calls[c].result = "none"
     /\ last'.op \in {"lifecycle", "stoppedLoading"}
     /\ calls[c].waitUntil \subseteq fired'[calls[c].frame]) =>
      calls'[c].result = "ok"

C15_WaitResolvesOnLifecycle == [][C15_LifecycleStep]_vars

\* C17: frameStoppedLoading for a known frame leaves both lifecycle events
\* fired, and a lifecycle or stopped-loading event makes the page hear once of
\* exactly the main frame's events that had not fired for the current document,
\* so that each page-level event is notified once per document.
C17_LifecycleStep ==
  (last'.op \in {"lifecycle", "stoppedLoading"} /\ frames[last'.id] # Null) =>
    LET h == frames[last'.id] IN
    /\ last'.op = "stoppedLoading" => fired'[h] = Lifecycle
    /\ \A e \in Lifecycle :
         Len(EventsOf(emitted', "page", e)) =
           IF h = mainFrame /\ e \in fired'[h] \ fired[h] THEN 1 ELSE 0

C17_PageEventOncePerDocument == [][C17_LifecycleStep]_vars

C19_RequestFailedStep ==
  last'.op \in {"navigationRequestFailed", "requestFailed"} =>
    LET frame == last'.id
        text == FailureTexts[last'.parentId]
        cancelled == \E i \in 1..Len(text) : text[i] = "cancelled"
        translated == last'.op = "navigationRequestFailed" /\ ~cancelled
    IN
    /\ emitted' = (IF translated
                   THEN <<Ev("frame", "expected", frame), Ev("frame", "aborted", frame)>>
                   ELSE <<>>) \o <<Ev("page", "RequestFailed", frame)>>
    /\ \A c \in CallIds :
         IF translated /\ calls[c].racing /\ calls[c].frame = frame
         THEN calls'[c].result = "aborted"
         ELSE calls'[c] = calls[c]

C19_RequestFailureReclassified == [][C19_RequestFailedStep]_vars

\* C19 witness: a refused navigation request has ended a wait on its frame and
\* the page has heard of the failure after the frame.
C19_Witness ==
  /\ last.op = "navigationRequestFailed"
  /\ Len(emitted) = 3 /\ emitted[3].type = "RequestFailed"
  /\ \E c \in CallIds : calls[c].result = "aborted" /\ calls[c].frame = last.id

\* C18: a console event whose first parameter is the binding sentinel adds no
\* console message and calls the binding handler once, with the context its
\* second parameter names; any other console event calls no binding handler
\* and its console message is added, at once or when the main frame's context
\* is there.
C18_ConsoleStep ==
  last'.op \in {"console.debug", "console.log"} =>
    LET bindings == EventsOf(emitted', "page", "BindingCalled")
        messages == EventsOf(emitted', "page", "Console")
    IN
    IF last'.id = 1
    THEN /\ messages = <<>> /\ consoleWaiting' = consoleWaiting
         /\ Len(bindings) = 1
         /\ bindings[1].frame = (IF contexts[last'.parentId] # NoContext
                                 THEN last'.parentId ELSE Null)
    ELSE /\ bindings = <<>>
         /\ Len(messages) + Len(consoleWaiting') = 1 + Len(consoleWaiting)

C18_ConsoleRouting == [][C18_ConsoleStep]_vars

\* C21: setViewport with isMobile, isLandscape or hasTouch, setEmulateMedia
\* with a colour scheme and closePage with runBeforeUnload fail, send no
\* command and change no state; with supported arguments each sends exactly
\* one command.
C21_EmulationStep ==
  last'.op \in {"setViewport", "setEmulateMedia", "closePage"} =>
    IF last'.id > 0
    THEN /\ threw' /\ emitted' = <<>>
         /\ UNCHANGED <<frames, mainFrame, nObjs, frameData, parentFrame, childFrames,
                        detached, contexts, worldContext, fired, calls, now,
                        consoleWaiting, lastDocumentId, committed, session,
                        sessionListeners>>
    ELSE /\ ~threw' /\ Len(emitted') = 1
         /\ emitted'[1].src \in {"session", "browser"}

C21_UnsupportedFailsFast == [][C21_EmulationStep]_vars

\* C21 witness: a viewport asking for touch and mobile emulation was refused.
C21_Witness ==
  last.op = "setViewport" /\ last.id = 2 /\ threw /\ emitted = <<>> /\ mainFrame # Null

\* C22 as stated: after setSession or didClose the listeners are on exactly the
\* current session.
C22_ListenersOnCurrentSession ==
  (last.op \in {"setSession", "didClose"} /\ session # Null) =>
    sessionListeners = {session}

\* C22: an event emitted by a session other than the current one changes
\* neither registry.
C22_StaleEventStep ==
  (last'.op \in {"emitsAttached", "emitsContextCreated", "emitsDetached"}
     /\ last'.id # session) =>
    /\ emitted' = <<>> /\ ~threw'
    /\ UNCHANGED <<frames, mainFrame, nObjs, contexts, worldContext, detached>>

\* C22 amended: listeners are only ever on the current session: setSession
\* leaves one set of listeners, on the new session, and didClose leaves none;
\* an event of any other session changes neither registry.
C22_ListenersFollowSession ==
  /\ [](/\ sessionListeners \subseteq {session}
        /\ last.op = "setSession" => sessionListeners = {session}
        /\ last.op = "didClose" => sessionListeners = {})
  /\ [][C22_StaleEventStep]_vars

\* C22 witness: after a replacement the replaced session emitted an event and
\* frames were registered.
C22_Witness ==
  /\ last.op = "emitsAttached" /\ session = 2 /\ last.id = 1
  /\ sessionListeners = {2} /\ mainFrame # Null

\* C23: when the detachment callback of a frame is invoked, the frame has
\* already been removed from the registry (and FrameDetached emitted for it).
C23_CallbackAfterRemoval ==
  \A n \in notified : n.ctx = 0 => ~n.registered

\* The events of replaying n snapshot nodes onto the frame objects base+1..base+n.
RECURSIVE ReplayEvents(_, _)
ReplayEvents(base, n) ==
  IF n = 0 THEN <<>>
  ELSE ReplayEvents(base, n - 1)
         \o <<Ev("manager", "FrameAttached", base + n), Ev("page", "FrameAttached", base + n),
              Ev("manager", "FrameNavigated", base + n), Ev("page", "FrameNavigated", base + n)>>

C24_SeedStep ==
  (last'.op = "frameTree" /\ \A id \in FrameIds : frames[id] = Null) =>
    LET ns == PreOrder(last'.tree)
        ids == {ns[i].id : i \in 1..Len(ns)}
    IN
    /\ ~threw'
    /\ \A i \in 1..Len(ns) :
         LET h == nObjs + i
             p == ns[i].parentId
             cs == ns[i].childFrames
         IN
         /\ frames'[ns[i].id] = h
         /\ frameData'[h] = ns[i].id
         /\ ~detached'[h]
         /\ parentFrame'[h] = IF p = Null THEN Null ELSE frames'[p]
         /\ childFrames'[h] = [k \in 1..Len(cs) |-> frames'[cs[k].id]]
    /\ \A id \in FrameIds \ ids : frames'[id] = Null
    /\ mainFrame' = nObjs + 1
    /\ mainFrame' = frames'[last'.tree.id]
    /\ emitted' = ReplayEvents(nObjs, Len(ns))
    /\ committed' = committed \o [i \in 1..Len(ns) |->
                                    DocumentId(ns[i].loaderId, lastDocumentId + i)]
    /\ \A n \in notified' : n.ctx # -1

\* C24: replaying a frame-tree snapshot onto an empty registry attaches and
\* then commits every node in pre-order: afterwards the registry holds exactly
\* the nodes of the tree with their parent and child links, the main frame is
\* the root, one document is committed per node, no FrameDetached is emitted
\* and no expected new-document navigation is marked.
C24_SnapshotSeedsRegistry == [][C24_SeedStep]_vars

C24_Witness ==
  /\ last.op = "frameTree"
  /\ ~threw
  /\ TreeSize(last.tree) >= 2
  /\ nObjs = TreeSize(last.tree) + 1
  /\ Cardinality({id \in FrameIds : frames[id] # Null}) = TreeSize(last.tree)

\* What a listener of FrameNavigated finds when _onFrameNavigated emits it for
\* frame F: st holds the manager's fields at that moment.
C25_Navigated(st, F, initial) ==
  /\ ~st.threw
  /\ Len(st.emitted) >= 2
  /\ SubSeq(st.emitted, Len(st.emitted) - 1, Len(st.emitted))
       = <<Ev("manager", "FrameNavigated", F), Ev("page", "FrameNavigated", F)>>
  /\ st.childFrames[F] = <<>>
  /\ \A id \in FrameIds : st.frames[id] # Null => st.parentFrame[st.frames[id]] # F
  /\ \A c \in ContextIds : st.contexts[c] = NoContext \/ st.contexts[c].frame # F
  /\ st.committed # <<>>
  /\ st.committed[Len(st.committed)] = DocumentId(<<"L">>, st.lastDocumentId)
  /\ ([ctx |-> -1, frame |-> F, registered |-> FALSE] \in st.notified) <=> ~initial

\* The fields of the state a step leads to.
C25_After ==
  [threw |-> threw', emitted |-> emitted', childFrames |-> childFrames', frames |-> frames',
   parentFrame |-> parentFrame', contexts |-> contexts', committed |-> committed',
   lastDocumentId |-> lastDocumentId', notified |-> notified']

C25_NavigateStep ==
  /\ last'.op = "navigate" =>
       LET F == IF last'.parentId = Null THEN mainFrame ELSE frames[last'.id]
       IN  F # Null =>
             /\ C25_Navigated(C25_After, F, FALSE)
             /\ lastDocumentId' = lastDocumentId + 1
             /\ last'.parentId = Null => frames'[last'.id] = F /\ frameData'[F] = last'.id
  /\ last'.op = "frameTree" => \A n \in notified' : n.ctx # -1

\* The initial navigation of any frame, from the current state.
C25_InitialNavigation ==
  \A id \in FrameIds, parentId \in FrameIds \cup {Null} :
    LET F == IF parentId = Null THEN mainFrame ELSE frames[id]
    IN  F # Null =>
          C25_Navigated(OnFrameNavigated(Cur, Node(id, parentId, <<"L">>, <<>>), TRUE),
                        F, TRUE)

\* C25: when FrameNavigated is emitted for a new-document navigation of a
\* frame, the frame has no child left in the registry, no registered context
\* is owned by it, the document committed last is the payload's (under
\* the id the main frame was re-keyed to), and the expected-navigation mark
\* was made exactly when the navigation is not an initial one.
C25_NavigationOrder == [][C25_NavigateStep]_vars /\ []C25_InitialNavigation

\* C25 witness: the main frame, owner of a context and parent of a frame, was
\* navigated under a new id.
C25_Witness ==
  /\ last.op = "navigate"
  /\ last.parentId = Null
  /\ ~threw
  /\ mainFrame # Null
  /\ frames[last.id] = mainFrame
  /\ last.id # 1
  /\ Len(EventsOf(emitted, "manager", "FrameDetached")) >= 1
  /\ \E n \in notified : n.ctx > 0 /\ n.frame = mainFrame

\* Every registered Frame is stored under its current protocol id, and under
\* no second key.
C26_KeysAreIds ==
  /\ \A id \in FrameIds : frames[id] # Null => frameData[frames[id]] = id
  /\ \A i, j \in FrameIds : (frames[i] # Null /\ frames[i] = frames[j]) => i = j

\* C26: once a frame was attached, mainFrame() is one of frames(), every
\* registered Frame is stored under its current protocol id, and no Frame is
\* stored under two keys.
C26_RegistryConsistent ==
  nObjs >= 1 => (mainFrame \in Registered /\ C26_KeysAreIds)

\* At most one Page.createIsolatedWorld per world name leaves between two
\* setSession calls.
C27_AtMostOnePerSession == sentSinceSet <= 1

\* C27: a session that was initialised and is current, no Runtime.enable
\* reply of it outstanding, has been sent a Page.createIsolatedWorld for
\* the utility world; and no second one is sent while a session is current.
C27_UtilityWorldPerSession ==
  /\ (session # Null /\ session \in enabled /\ enabling[session] = 0) =>
       worldsSent[session] >= 1
  /\ C27_AtMostOnePerSession

\* A step other than the delivery of a console event in which handlers that
\* were awaiting the main frame's context go on.
C28_ResumeStep ==
  LET resumed == Len(consoleWaiting) - Len(consoleWaiting')
  IN  (/\ last'.op \notin {"console.debug", "console.log"}
       /\ resumed > 0
       /\ \A i \in 1..Len(consoleWaiting) : consoleWaiting[i].registered)
      => /\ ~threw'
         /\ Len(EventsOf(emitted', "page", "Console")) = resumed

\* C28: a console handler that goes on after awaiting the main frame's context
\* adds its console message and does not fail, when every context its
\* parameters name was registered as the event was delivered, whatever was
\* handled in between.
C28_ConsoleSurvivesInterleaving == [][C28_ResumeStep]_vars

\* The names of the tasks other than plugin setup, in the order the claim gives.
C29_Order ==
  <<"global setup", "load tests", "prepare to run", "plugin begin", "report begin",
    "setup workers", "test suite">>

C29_Rank(name) == CHOOSE i \in 1..Len(C29_Order) : C29_Order[i] = name

C29_RunOnly == {"prepare to run", "plugin begin", "setup workers", "test suite"}

\* C29: the pipeline starts with one plugin setup task per plugin in
\* plugin order and goes on in the fixed order; global setup is there exactly
\* when a global hook is configured, the four run-only tasks exactly when not
\* listing; tasks run in registration order, so load tests runs before report
\* begin, and when listing no output directory is removed and no test is
\* dispatched; the load task throws 'No tests found' exactly when loading
\* gave no errors and no tests and passWithNoTests is not set.
C29_TaskPipeline ==
  runner.created =>
    LET tasks == runner.tasks
        n == Len(runner.plugins)
        names == [i \in 1..Len(tasks) |-> tasks[i].name]
        rest == SubSeq(names, n + 1, Len(names))
        ran == runner.ran
    IN
    /\ Len(tasks) >= n
    /\ \A i \in 1..n : tasks[i] = Task("plugin setup", runner.plugins[i])
    /\ \A i \in 1..Len(rest) : rest[i] \in Range(C29_Order)
    /\ \A i, j \in 1..Len(rest) : i < j => C29_Rank(rest[i]) < C29_Rank(rest[j])
    /\ "global setup" \in Range(rest)
         <=> (runner.config.globalSetup \/ runner.config.globalTeardown)
    /\ \A t \in C29_RunOnly : t \in Range(rest) <=> ~runner.options.listOnly
    /\ {"load tests", "report begin"} \subseteq Range(rest)
    /\ ran = SubSeq(names, 1, Len(ran))
    /\ runner.reported => "load tests" \in Range(ran)
    /\ runner.options.listOnly => ~runner.removedOutputDirs /\ ~runner.dispatched
    /\ runner.loaded # NotLoaded =>
         ((ran[Len(ran)] = "load tests" /\ runner.thrown = "No tests found")
            <=> (/\ ran[Len(ran)] = "load tests"
                 /\ runner.loaded.errors = 0
                 /\ runner.loaded.tests = 0
                 /\ ~runner.options.passWithNoTests))

\* C29 witness: a listing run with two plugins and only a global teardown went
\* through to report begin.
C29_Witness ==
  /\ runner.created
  /\ runner.options.listOnly
  /\ Len(runner.plugins) = 2
  /\ ~runner.config.globalSetup /\ runner.config.globalTeardown
  /\ runner.reported
  /\ ~runner.interrupted
  /\ Len(runner.ran) = Len(runner.tasks)

====
